---- MODULE Spec2Model ----
(***************************************************************************)
(* GTFS database builder (scripts/build_db.py): main() runs                *)
(* download_and_extract, create_database, generate_metadata and cleanup.   *)
(* create_database creates the SQLite schema, streams each feed file into  *)
(* its table in chunks, creates the secondary indices, runs VACUUM,        *)
(* ANALYZE and PRAGMA integrity_check.                                     *)
(*                                                                         *)
(* The extracted feed (the directory temp_gtfs) is the program's input.    *)
(* The variable feed records the part of it the program has read so far:   *)
(* whether a file exists, its header, and the rows of the chunks read.     *)
(***************************************************************************)
EXTENDS Integers, Sequences, FiniteSets, TLC

\* The size of what the environment gives one run: a data row of the feed
\* (of any file) counts 1, and an irregularity that lets the run go on (a
\* missing file, a column missing from a header, a failing CREATE INDEX)
\* counts 2.
MaxInputs == 3
\* chunksize of pd.read_csv (50000 in the source), scaled down so that a
\* file of MaxInputs rows spans more than one chunk.
ChunkSize == 2

---------------------------------------------------------------------------
(* Cell values: a pandas NaN / SQL NULL, a text, or an SQLite integer.     *)

NULL == [k |-> "null", s |-> "", n |-> 0]
TextCell(str) == [k |-> "text", s |-> str, n |-> 0]
IntCell(num) == [k |-> "int", s |-> "", n |-> num]

\* The texts of the feed that SQLite's INTEGER affinity converts, with the
\* integer each converts to; every other text is stored as text.
IntegerText == ("1" :> 1) @@ ("01" :> 1) @@ ("2" :> 2)

---------------------------------------------------------------------------
(* Schema: the CREATE TABLE statements and the imports map.                *)

\* The order of the CREATE TABLE statements.
CreateOrder ==
    <<"routes", "stops", "trips", "stop_times", "calendar", "calendar_dates",
      "shapes", "agency">>

\* The order of the imports dict, which is the order of the ingestion loop.
ImportOrder ==
    <<"routes", "stops", "trips", "stop_times", "calendar", "calendar_dates",
      "shapes", "agency">>

FeedTables == {ImportOrder[i] : i \in 1..Len(ImportOrder)}

\* The columns of each table that the model follows: every primary key
\* column, every column a defaulting rule reads or writes, and for the
\* remaining tables one NOT NULL and/or one nullable column.
Columns ==
    [routes |-> {"route_id", "route_short_name", "route_long_name"},
     stops |-> {"stop_id", "stop_name", "stop_lat", "stop_lon"},
     trips |-> {"trip_id", "route_id"},
     stop_times |-> {"trip_id", "stop_sequence"},
     calendar |-> {"service_id"},
     calendar_dates |-> {"service_id", "date"},
     shapes |-> {"shape_id", "shape_pt_sequence"},
     agency |-> {"agency_id", "agency_lang"}]

PrimaryKey ==
    [routes |-> {"route_id"},
     stops |-> {"stop_id"},
     trips |-> {"trip_id"},
     stop_times |-> {"trip_id", "stop_sequence"},
     calendar |-> {"service_id"},
     calendar_dates |-> {"service_id", "date"},
     shapes |-> {"shape_id", "shape_pt_sequence"},
     agency |-> {"agency_id"}]

NotNull ==
    [routes |-> {"route_id", "route_short_name", "route_long_name"},
     stops |-> {"stop_id", "stop_name", "stop_lat", "stop_lon"},
     trips |-> {"trip_id", "route_id"},
     stop_times |-> {"trip_id", "stop_sequence"},
     calendar |-> {"service_id"},
     calendar_dates |-> {"service_id", "date"},
     shapes |-> {"shape_id", "shape_pt_sequence"},
     agency |-> {"agency_id"}]

\* The columns declared INTEGER; every other column is TEXT.
IntegerColumns ==
    [routes |-> {}, stops |-> {}, trips |-> {},
     stop_times |-> {"stop_sequence"},
     calendar |-> {}, calendar_dates |-> {},
     shapes |-> {"shape_pt_sequence"},
     agency |-> {}]

\* The secondary indices, in creation order: <<name, table, column>>.
Indices ==
    <<<<"idx_stop_times_stop_id", "stop_times", "stop_id">>,
      <<"idx_trips_route_id", "trips", "route_id">>,
      <<"idx_trips_service_id", "trips", "service_id">>,
      <<"idx_shapes_id", "shapes", "shape_id">>,
      <<"idx_calendar_dates_service", "calendar_dates", "service_id">>,
      <<"idx_calendar_dates_date", "calendar_dates", "date">>>>

\* The row create_database inserts into room_master_table.
RoomMasterRow ==
    [id |-> IntCell(42), identity_hash |-> TextCell("GTFS_DATABASE_V1_PLACEHOLDER")]

---------------------------------------------------------------------------
(* The feed values the model draws from (pd.read_csv with dtype=str gives  *)
(* a text or NaN for every cell).                                          *)

ColumnValues ==
    [routes |->
        [route_id |-> {TextCell("R1"), TextCell("R2")},
         route_short_name |-> {NULL, TextCell("64")},
         route_long_name |-> {NULL, TextCell("Termini")}],
     stops |->
        [stop_id |-> {TextCell("S1")},
         stop_name |-> {NULL, TextCell("Termini")},
         stop_lat |-> {NULL, TextCell("41.9")},
         stop_lon |-> {NULL, TextCell("12.5")}],
     trips |->
        [trip_id |-> {TextCell("T1"), TextCell("T2")},
         route_id |-> {NULL, TextCell("R1")}],
     stop_times |->
        [trip_id |-> {TextCell("T1")},
         stop_sequence |->
            {TextCell("1"), TextCell("01"), TextCell("2"), TextCell("abc")}],
     calendar |->
        [service_id |-> {TextCell("C1"), TextCell("C2")}],
     calendar_dates |->
        [service_id |-> {TextCell("C1"), TextCell("C2")},
         date |-> {TextCell("20240101"), TextCell("20240102")}],
     shapes |->
        [shape_id |-> {TextCell("H1")},
         shape_pt_sequence |-> {TextCell("1"), TextCell("2"), TextCell("x")}],
     agency |->
        [agency_id |-> {TextCell("A1"), TextCell("A2")},
         agency_lang |-> {NULL, TextCell("it")}]]

\* The rows a file of table t with header columns cols can hold.
SourceRows(t, cols) ==
    {r \in [cols -> UNION {ColumnValues[t][c] : c \in cols}] :
        \A c \in cols : r[c] \in ColumnValues[t][c]}

\* The headers a file of table t can have: the schema's columns, less
\* at most missing of them.
Headers(t, missing) ==
    {Columns[t] \ m : m \in {x \in SUBSET Columns[t] : Cardinality(x) <= missing}}

---------------------------------------------------------------------------
(* Cleaning of one chunk and its insertion (the body of the chunk loop).   *)

\* pandas Series.fillna(other), for one cell: the cell, or other's cell of
\* the same row where the cell is NaN.
FillNa(v, other) == IF v = NULL THEN other ELSE v

\* data = chunk[available_cols]: the row restricted to the schema's columns.
Project(t, r) == [c \in Columns[t] \cap DOMAIN r |-> r[c]]

\* The columns the cleaning step of table t indexes the frame by; one that
\* the frame lacks raises KeyError.
CleanColumns(t) ==
    CASE t = "routes" -> {"route_long_name", "route_short_name", "route_id"}
      [] t = "stops" -> {"stop_name", "stop_lat", "stop_lon"}
      [] OTHER -> {}

CleanRaises(t, cols) == ~(CleanColumns(t) \subseteq cols)

\* routes: route_long_name is filled from route_short_name first, and only
\* then route_short_name from route_id.
CleanRoutes(r) ==
    LET a == [r EXCEPT !["route_long_name"] =
                         FillNa(r["route_long_name"], r["route_short_name"])]
    IN  [a EXCEPT !["route_short_name"] =
                         FillNa(a["route_short_name"], a["route_id"])]

CleanStops(r) ==
    LET a == [r EXCEPT !["stop_name"] =
                         FillNa(r["stop_name"], TextCell("Unknown Stop"))]
        b == [a EXCEPT !["stop_lat"] = FillNa(a["stop_lat"], TextCell("0.0"))]
    IN  [b EXCEPT !["stop_lon"] = FillNa(b["stop_lon"], TextCell("0.0"))]

\* The cleaning of one row of a chunk whose frame has the cleaned columns.
Clean(t, r) ==
    CASE t = "routes" -> CleanRoutes(r)
      [] t = "stops" -> CleanStops(r)
      [] OTHER -> r

\* SQLite's column affinity: a text that is a well-formed integer is stored
\* as an integer in an INTEGER column; any other value is stored as it is.
Affinity(t, c, v) ==
    IF c \in IntegerColumns[t] /\ v.k = "text" /\ v.s \in DOMAIN IntegerText
    THEN IntCell(IntegerText[v.s])
    ELSE v

\* The row INSERT stores for a frame row: a column the frame lacks is NULL.
StoredRow(t, r) ==
    [c \in Columns[t] |-> IF c \in DOMAIN r THEN Affinity(t, c, r[c]) ELSE NULL]

KeyOf(t, row) == [c \in PrimaryKey[t] |-> row[c]]

\* The NOT NULL and PRIMARY KEY constraints of table t, for a row to store
\* into a table holding the rows existing.
ViolatesNotNull(t, row) == \E c \in NotNull[t] : row[c] = NULL

\* Mutant: the table is created without its PRIMARY KEY clause.
ViolatesPrimaryKey_Never(t, existing, row) == FALSE

ViolatesPrimaryKey(t, existing, row) ==
    \E i \in 1..Len(existing) : KeyOf(t, existing[i]) = KeyOf(t, row)

RECURSIVE InsertRows(_, _, _)
InsertRows(t, existing, data) ==
    IF data = <<>> THEN [ok |-> TRUE, rows |-> existing]
    ELSE LET row == StoredRow(t, Head(data))
         IN  IF ViolatesNotNull(t, row) \/ ViolatesPrimaryKey(t, existing, row)
             THEN [ok |-> FALSE, rows |-> existing]
             ELSE InsertRows(t, Append(existing, row), Tail(data))

\* Mutant: if_exists="replace", every batch replaces the table's rows.
ToSql_Replace(t, existing, data) ==
    LET res == InsertRows(t, <<>>, data)
    IN  IF res.ok THEN res ELSE [ok |-> FALSE, rows |-> existing]

\* data.to_sql(table, conn, if_exists="append"): the rows are inserted in
\* frame order in one transaction, which a failing row rolls back.
ToSql(t, existing, data) ==
    LET res == InsertRows(t, existing, data)
    IN  IF res.ok THEN res ELSE [ok |-> FALSE, rows |-> existing]

\* The frame the chunk loop inserts for a chunk (a sequence of source rows).
CleanChunk(t, chunk) == [i \in 1..Len(chunk) |-> Clean(t, Project(t, chunk[i]))]

---------------------------------------------------------------------------
(* State.                                                                  *)

VARIABLES
    pc,        \* the statement main() is at
    k,         \* the index of the running loop (tables, files, indices)
    feed,      \* what has been read of temp_gtfs, per table
    tables,    \* the tables of the store (output/rome_gtfs.db)
    rows,      \* the committed rows of each table, in insertion order
    indices,   \* the secondary indices of the store
    row_count, \* row_count of the file being imported
    reported,  \* the row totals printed, per imported table
    result,    \* the answer of PRAGMA integrity_check
    manifest,  \* output/manifest.json written by this run
    cleaned,   \* gtfs.zip and temp_gtfs removed by this run
    error,     \* the error message printed before exit(1)
    exit_code, \* the process's exit status, -1 while it runs
    log        \* the steps done and warnings printed, in order

vars ==
    <<pc, k, feed, tables, rows, indices, row_count, reported, result,
      manifest, cleaned, error, exit_code, log>>

StoreTables == FeedTables \cup {"room_master_table", "sqlite_stat1"}

IndexNames == {Indices[i][1] : i \in 1..Len(Indices)}

NoRows == [t \in StoreTables |-> <<>>]

Unopened == [st |-> "unopened", header |-> {}, chunks |-> 0, rows |-> <<>>]

\* A store left in output/ by an earlier build.
OldRows ==
    [NoRows EXCEPT
        !["room_master_table"] = <<RoomMasterRow>>,
        !["routes"] = <<[route_id |-> TextCell("R1"),
                         route_short_name |-> TextCell("64"),
                         route_long_name |-> TextCell("Termini")]>>]

Init ==
    /\ pc = "download"
    /\ k = 0
    /\ feed = [t \in FeedTables |-> Unopened]
    /\ \/ tables = {} /\ rows = NoRows /\ indices = {}
       \/ tables = StoreTables /\ rows = OldRows /\ indices = IndexNames
    /\ row_count = 0
    /\ reported = <<>>
    /\ result = "none"
    /\ manifest = FALSE
    /\ cleaned = FALSE
    /\ error = "none"
    /\ exit_code = -1
    /\ log = <<>>

\* The irregularities of the environment met so far that did not end the
\* run at once: missing files, missing columns, failed index creations.
MissingFiles == {t \in FeedTables : feed[t].st = "absent"}

MissingColumns ==
    {tc \in UNION {{<<t, c>> : c \in Columns[t]} : t \in FeedTables} :
        /\ feed[tc[1]].st \in {"open", "done"}
        /\ tc[2] \notin feed[tc[1]].header}

FailedIndices == {i \in 1..Len(log) : log[i][1] = "index_failed"}

Faults ==
    Cardinality(MissingFiles) + Cardinality(MissingColumns)
        + Cardinality(FailedIndices)

RECURSIVE SumRows(_)
SumRows(ts) ==
    IF ts = {} THEN 0
    ELSE LET t == CHOOSE x \in ts : TRUE
         IN  Len(feed[t].rows) + SumRows(ts \ {t})

RowsRead == SumRows(FeedTables)

Inputs == RowsRead + 2 * Faults

Min(a, b) == IF a < b THEN a ELSE b

---------------------------------------------------------------------------
(* Steps of main().                                                        *)

\* exit(1): SystemExit is not an Exception, so main()'s handler lets it by.
Exit1(message) ==
    /\ error' = message
    /\ exit_code' = 1
    /\ pc' = "failed"

\* download_and_extract(): a failed download or extraction exits.
DownloadAndExtract ==
    /\ pc = "download"
    /\ \/ /\ pc' = "connect"
          /\ log' = Append(log, <<"download", "">>)
          /\ UNCHANGED <<error, exit_code>>
       \/ /\ Exit1("download")
          /\ UNCHANGED log
    /\ UNCHANGED <<k, feed, tables, rows, indices, row_count, reported,
                   result, manifest, cleaned>>

\* A previous database file is removed and a new one is opened.
Connect ==
    /\ pc = "connect"
    /\ tables' = {}
    /\ rows' = NoRows
    /\ indices' = {}
    /\ pc' = "room_master"
    /\ log' = Append(log, <<"connect", "">>)
    /\ UNCHANGED <<k, feed, row_count, reported, result, manifest, cleaned,
                   error, exit_code>>

\* CREATE TABLE room_master_table and the INSERT of its one row.
CreateRoomMasterTable ==
    /\ pc = "room_master"
    /\ tables' = tables \cup {"room_master_table"}
    /\ rows' = [rows EXCEPT !["room_master_table"] = <<RoomMasterRow>>]
    /\ pc' = "schema"
    /\ k' = 1
    /\ log' = Append(log, <<"create", "room_master_table">>)
    /\ UNCHANGED <<feed, indices, row_count, reported, result, manifest,
                   cleaned, error, exit_code>>

\* Mutant: the last CREATE TABLE (agency) is left out.
CreateTable_WithoutLast ==
    /\ pc = "schema"
    /\ tables' = tables \cup {CreateOrder[k]}
    /\ log' = Append(log, <<"create", CreateOrder[k]>>)
    /\ IF k < Len(CreateOrder) - 1
       THEN k' = k + 1 /\ pc' = "schema"
       ELSE k' = 1 /\ pc' = "import_open"
    /\ UNCHANGED <<feed, rows, indices, row_count, reported, result,
                   manifest, cleaned, error, exit_code>>

\* One CREATE TABLE; conn.commit() follows the last.
CreateTable ==
    /\ pc = "schema"
    /\ tables' = tables \cup {CreateOrder[k]}
    /\ log' = Append(log, <<"create", CreateOrder[k]>>)
    /\ IF k < Len(CreateOrder)
       THEN k' = k + 1 /\ pc' = "schema"
       ELSE k' = 1 /\ pc' = "import_open"
    /\ UNCHANGED <<feed, rows, indices, row_count, reported, result,
                   manifest, cleaned, error, exit_code>>

\* The ingestion loop goes on to its next file, or ends.
NextFile ==
    IF k < Len(ImportOrder)
    THEN k' = k + 1 /\ pc' = "import_open"
    ELSE k' = 1 /\ pc' = "index"

\* Mutant: a missing file ends the run (exit(1) in place of continue).
SkipMissingFile_Exits ==
    /\ pc = "import_open"
    /\ Inputs + 2 <= MaxInputs
    /\ feed' = [feed EXCEPT ![ImportOrder[k]].st = "absent"]
    /\ log' = Append(log, <<"missing_file", ImportOrder[k]>>)
    /\ Exit1("import")
    /\ UNCHANGED <<k, tables, rows, indices, row_count, reported, result,
                   manifest, cleaned>>

\* os.path.exists(file_path) is false: a warning, and the next file.
SkipMissingFile ==
    /\ pc = "import_open"
    /\ Inputs + 2 <= MaxInputs
    /\ feed' = [feed EXCEPT ![ImportOrder[k]].st = "absent"]
    /\ log' = Append(log, <<"missing_file", ImportOrder[k]>>)
    /\ NextFile
    /\ UNCHANGED <<tables, rows, indices, row_count, reported, result,
                   manifest, cleaned, error, exit_code>>

\* The file exists: row_count = 0 and pd.read_csv opens it (its header).
OpenFile ==
    /\ pc = "import_open"
    /\ \E header \in Headers(ImportOrder[k], (MaxInputs - Inputs) \div 2) :
          feed' = [feed EXCEPT ![ImportOrder[k]] =
                      [st |-> "open", header |-> header, chunks |-> 0,
                       rows |-> <<>>]]
    /\ row_count' = 0
    /\ pc' = "import_read"
    /\ UNCHANGED <<k, tables, rows, indices, reported, result, manifest,
                   cleaned, error, exit_code, log>>

\* What the chunk loop's body does with one chunk of file t.
ProcessChunk(t, chunk) ==
    LET header == feed[t].header
        missing_cols == Columns[t] \ header
        warned == IF missing_cols = {} THEN log
                  ELSE Append(log, <<"missing_columns", t>>)
        out == ToSql(t, rows[t], CleanChunk(t, chunk))
    IN  /\ feed' = [feed EXCEPT ![t].rows = feed[t].rows \o chunk,
                                ![t].chunks = feed[t].chunks + 1]
        /\ IF CleanRaises(t, header) \/ ~out.ok
           THEN /\ Exit1("import")
                /\ log' = warned
                /\ UNCHANGED <<k, rows, row_count>>
           ELSE /\ rows' = [rows EXCEPT ![t] = out.rows]
                /\ row_count' = row_count + Len(chunk)
                /\ log' = Append(warned, <<"insert", t>>)
                /\ UNCHANGED <<pc, k, error, exit_code>>

\* The reader yields the next chunk: ChunkSize rows, or fewer at the end of
\* the file (none only as the first chunk of a file without data rows).
ReadChunk ==
    /\ pc = "import_read"
    /\ LET t == ImportOrder[k]
           lo == IF feed[t].chunks = 0 THEN 0 ELSE 1
           hi == Min(ChunkSize, MaxInputs - Inputs)
       IN  /\ Len(feed[t].rows) = feed[t].chunks * ChunkSize
           /\ \E n \in lo..hi :
                 \E chunk \in [1..n -> SourceRows(t, feed[t].header)] :
                    ProcessChunk(t, chunk)
    /\ UNCHANGED <<tables, indices, reported, result, manifest, cleaned>>

\* pd.read_csv raises (an empty file, a malformed row): the handler of the
\* ingestion loop prints the error and exits.
ReadError ==
    /\ pc = "import_read"
    /\ Len(feed[ImportOrder[k]].rows) = feed[ImportOrder[k]].chunks * ChunkSize
    /\ Exit1("import")
    /\ log' = Append(log, <<"read_error", ImportOrder[k]>>)
    /\ UNCHANGED <<k, feed, tables, rows, indices, row_count, reported,
                   result, manifest, cleaned>>

\* The reader is exhausted: the row total is printed, and the next file.
EndOfFile ==
    /\ pc = "import_read"
    /\ feed[ImportOrder[k]].chunks >= 1
    /\ feed' = [feed EXCEPT ![ImportOrder[k]].st = "done"]
    /\ reported' = Append(reported, <<ImportOrder[k], row_count>>)
    /\ log' = Append(log, <<"imported", ImportOrder[k]>>)
    /\ NextFile
    /\ UNCHANGED <<tables, rows, indices, row_count, result, manifest,
                   cleaned, error, exit_code>>

\* Mutant: the VACUUM statement is left out.
NextIndex_WithoutVacuum ==
    IF k < Len(Indices)
    THEN k' = k + 1 /\ pc' = "index"
    ELSE k' = 0 /\ pc' = "analyze"

\* The index loop goes on to its next index, or ends.
NextIndex ==
    IF k < Len(Indices)
    THEN k' = k + 1 /\ pc' = "index"
    ELSE k' = 0 /\ pc' = "vacuum"

\* CREATE INDEX IF NOT EXISTS succeeds.
CreateIndex ==
    /\ pc = "index"
    /\ indices' = indices \cup {Indices[k][1]}
    /\ log' = Append(log, <<"index", Indices[k][1]>>)
    /\ NextIndex
    /\ UNCHANGED <<feed, tables, rows, row_count, reported, result,
                   manifest, cleaned, error, exit_code>>

\* Mutant: CREATE INDEX is not wrapped in try/except, so its exception
\* reaches main()'s handler.
CreateIndexFails_Aborts ==
    /\ pc = "index"
    /\ Inputs + 2 <= MaxInputs
    /\ log' = Append(log, <<"index_failed", Indices[k][1]>>)
    /\ Exit1("fatal")
    /\ UNCHANGED <<k, feed, tables, rows, indices, row_count, reported, result,
                   manifest, cleaned>>

\* CREATE INDEX raises: the handler prints a warning and the loop goes on.
CreateIndexFails ==
    /\ pc = "index"
    /\ Inputs + 2 <= MaxInputs
    /\ log' = Append(log, <<"index_failed", Indices[k][1]>>)
    /\ NextIndex
    /\ UNCHANGED <<feed, tables, rows, indices, row_count, reported, result,
                   manifest, cleaned, error, exit_code>>

Vacuum ==
    /\ pc = "vacuum"
    /\ pc' = "analyze"
    /\ log' = Append(log, <<"vacuum", "">>)
    /\ UNCHANGED <<k, feed, tables, rows, indices, row_count, reported,
                   result, manifest, cleaned, error, exit_code>>

\* ANALYZE writes its statistics into the table sqlite_stat1.
Analyze ==
    /\ pc = "analyze"
    /\ tables' = tables \cup {"sqlite_stat1"}
    /\ pc' = "check"
    /\ log' = Append(log, <<"analyze", "">>)
    /\ UNCHANGED <<k, feed, rows, indices, row_count, reported, result,
                   manifest, cleaned, error, exit_code>>

\* Mutant: the answer of the check is printed but not acted on.
IntegrityCheck_IgnoresAnswer ==
    /\ pc = "check"
    /\ \E answer \in {"ok", "row 1 missing from index"} : result' = answer
    /\ pc' = "manifest"
    /\ log' = Append(log, <<"integrity_check", "">>)
    /\ UNCHANGED <<k, feed, tables, rows, indices, row_count, reported,
                   manifest, cleaned, error, exit_code>>

\* PRAGMA integrity_check: "ok" lets create_database return, any other
\* answer exits.
IntegrityCheck ==
    /\ pc = "check"
    /\ \E answer \in {"ok", "row 1 missing from index"} :
          /\ result' = answer
          /\ IF answer = "ok"
             THEN pc' = "manifest" /\ UNCHANGED <<error, exit_code>>
             ELSE Exit1("integrity")
    /\ log' = Append(log, <<"integrity_check", "">>)
    /\ UNCHANGED <<k, feed, tables, rows, indices, row_count, reported,
                   manifest, cleaned>>

GenerateMetadata ==
    /\ pc = "manifest"
    /\ manifest' = TRUE
    /\ pc' = "cleanup"
    /\ log' = Append(log, <<"manifest", "">>)
    /\ UNCHANGED <<k, feed, tables, rows, indices, row_count, reported,
                   result, cleaned, error, exit_code>>

\* cleanup(), the summary, and the normal end of the process.
Cleanup ==
    /\ pc = "cleanup"
    /\ cleaned' = TRUE
    /\ pc' = "done"
    /\ exit_code' = 0
    /\ log' = Append(log, <<"cleanup", "">>)
    /\ UNCHANGED <<k, feed, tables, rows, indices, row_count, reported,
                   result, manifest, error>>

\* A statement outside the two handlers of create_database raises: main()'s
\* handler prints the error and exits.
FatalError ==
    /\ pc \in {"connect", "vacuum", "manifest"}
    /\ Exit1("fatal")
    /\ UNCHANGED <<k, feed, tables, rows, indices, row_count, reported,
                   result, manifest, cleaned, log>>

Next ==
    \/ DownloadAndExtract
    \/ Connect
    \/ CreateRoomMasterTable
    \/ CreateTable
    \/ SkipMissingFile
    \/ OpenFile
    \/ ReadChunk
    \/ ReadError
    \/ EndOfFile
    \/ CreateIndex
    \/ CreateIndexFails
    \/ Vacuum
    \/ Analyze
    \/ IntegrityCheck
    \/ GenerateMetadata
    \/ Cleanup
    \/ FatalError

Spec == Init /\ [][Next]_vars

---------------------------------------------------------------------------
(* Vocabulary of the properties.                                           *)

Logged(e) == \E i \in 1..Len(log) : log[i] = e

LoggedKind(kind) == \E i \in 1..Len(log) : log[i][1] = kind

\* The place of a logged step in the order of the stages.
StageOf ==
    [download |-> 0, connect |-> 1, create |-> 2,
     missing_file |-> 3, missing_columns |-> 3, insert |-> 3, imported |-> 3,
     read_error |-> 3,
     index |-> 4, index_failed |-> 4,
     vacuum |-> 5, analyze |-> 6, integrity_check |-> 7, manifest |-> 8,
     cleanup |-> 9]

Stage(kind) == StageOf[kind]

\* The CREATE INDEX statements run so far, in order.
IndexAttempts == SelectSeq(log, LAMBDA e : e[1] \in {"index", "index_failed"})

\* The store is the one of this run (not the file of an earlier build).
StoreOpened == pc \notin {"download", "connect"} /\ LoggedKind("connect")

Succeeded == pc = "done" /\ exit_code = 0

\* The ingestion loop is through with every file.
IngestionOver == \A t \in FeedTables : feed[t].st \in {"absent", "done"}

\* Every row read from the file of t is in the store.
AllInserted(t) == Len(rows[t]) = Len(feed[t].rows)

\* The primary key a source row gets in the store.
SourceKey(t, r) == KeyOf(t, StoredRow(t, Project(t, r)))

DuplicateInFeed(t) ==
    \E i, j \in 1..Len(feed[t].rows) :
        i < j /\ SourceKey(t, feed[t].rows[i]) = SourceKey(t, feed[t].rows[j])

TableIndex(t) == CHOOSE i \in 1..Len(ImportOrder) : ImportOrder[i] = t

---------------------------------------------------------------------------
(* C1: the manifest step is reached only if every batch of every present   *)
(* file was inserted and the integrity check answered exactly "ok"; a      *)
(* batch insert error, or any other answer of the check, ends the run with *)
(* exit status 1 and nothing after it is executed (no later file, index,   *)
(* optimization, manifest or cleanup).                                     *)
C1_ManifestOnlyAfterCleanBuild ==
    /\ (manifest \/ pc \in {"manifest", "cleanup", "done"}) =>
          /\ result = "ok"
          /\ IngestionOver
          /\ \A t \in FeedTables : AllInserted(t)
    /\ \A t \in FeedTables :
          (StoreOpened /\ ~AllInserted(t)) =>
              error = "import" /\ ImportOrder[k] = t
    /\ result \notin {"none", "ok"} => error = "integrity"
    /\ error \in {"import", "integrity"} =>
          /\ pc = "failed" /\ exit_code = 1
          /\ ~manifest /\ ~cleaned
          /\ ~LoggedKind("manifest") /\ ~LoggedKind("cleanup")
          /\ ~ENABLED Next
    /\ error = "import" =>
          /\ indices = {}
          /\ \A i \in 1..Len(log) : Stage(log[i][1]) <= 3
          /\ \A j \in (k + 1)..Len(ImportOrder) :
                feed[ImportOrder[j]] = Unopened

\* A second batch fails after the first was committed: the run has ended.
C1_Witness ==
    /\ error = "import"
    /\ feed[ImportOrder[k]].chunks = 2
    /\ Len(rows[ImportOrder[k]]) = ChunkSize

---------------------------------------------------------------------------
(* C3: no table of the store ever holds two rows with the same primary     *)
(* key; a file with two rows of the same key, in one batch or in two, ends *)
(* the build with an import error instead of being stored twice or         *)
(* overwritten.                                                            *)
C3_PrimaryKeysUnique ==
    \A t \in FeedTables :
        /\ \A i, j \in 1..Len(rows[t]) :
              KeyOf(t, rows[t][i]) = KeyOf(t, rows[t][j]) => i = j
        /\ (StoreOpened /\ DuplicateInFeed(t)) =>
              /\ pc = "failed" /\ error = "import" /\ exit_code = 1
              /\ ~AllInserted(t)

\* The third row of a file repeats the key of its first row, which an
\* earlier batch had stored: the build is aborted.
C3_Witness ==
    \E t \in FeedTables :
        /\ feed[t].chunks = 2
        /\ Len(feed[t].rows) = ChunkSize + 1
        /\ SourceKey(t, feed[t].rows[1]) = SourceKey(t, feed[t].rows[ChunkSize + 1])
        /\ SourceKey(t, feed[t].rows[1]) # SourceKey(t, feed[t].rows[2])
        /\ Len(rows[t]) = ChunkSize
        /\ error = "import"

---------------------------------------------------------------------------
(* C2: every row of routes.txt is stored with route_short_name equal to    *)
(* its source value if present and else to route_id, and route_long_name   *)
(* equal to its source value if present and else to the stored             *)
(* route_short_name, for every combination of present and absent names,    *)
(* both absent included. Stated for files with a full header and distinct, *)
(* present route_ids, which nothing else keeps from being stored.          *)
C2_RoutesStoredWithDefaults ==
    LET src == feed["routes"].rows
        db == rows["routes"]
    IN  (/\ StoreOpened
         /\ feed["routes"].st \in {"open", "done"}
         /\ feed["routes"].header = Columns["routes"]
         /\ ~DuplicateInFeed("routes")) =>
            /\ Len(db) = Len(src)
            /\ \A i \in 1..Len(src) :
                  /\ db[i]["route_short_name"] =
                        (IF src[i]["route_short_name"] # NULL
                         THEN src[i]["route_short_name"]
                         ELSE src[i]["route_id"])
                  /\ db[i]["route_long_name"] =
                        (IF src[i]["route_long_name"] # NULL
                         THEN src[i]["route_long_name"]
                         ELSE db[i]["route_short_name"])

---------------------------------------------------------------------------
(* C4: a row of stop_times.txt with non-numeric text in stop_sequence, or  *)
(* a row of shapes.txt with non-numeric text in shape_pt_sequence, makes   *)
(* ingestion fail: the run ends with an import error and exit status 1     *)
(* and writes no manifest.                                                 *)
NonNumeric(v) == v.k = "text" /\ v.s \notin DOMAIN IntegerText

HasNonNumeric(t, c) ==
    \E i \in 1..Len(feed[t].rows) :
        c \in DOMAIN feed[t].rows[i] /\ NonNumeric(feed[t].rows[i][c])

C4_NonNumericSequenceIsFatal ==
    (\/ HasNonNumeric("stop_times", "stop_sequence")
     \/ HasNonNumeric("shapes", "shape_pt_sequence")) =>
        /\ pc = "failed" /\ error = "import" /\ exit_code = 1
        /\ ~manifest

---------------------------------------------------------------------------
(* C5: a missing file of any one of the eight tables is a warning and a    *)
(* skip: the loop goes on with the remaining files, the run is not ended   *)
(* at the skipped table, and a build that completes has run every index    *)
(* attempt, the optimization, the integrity check and the manifest step,   *)
(* with the skipped table present in the store and empty.                  *)
C5_MissingFileIsSkipped ==
    \A t \in MissingFiles :
        /\ Logged(<<"missing_file", t>>)
        /\ rows[t] = <<>> /\ t \in tables
        /\ feed[t].rows = <<>>
        /\ \/ k > TableIndex(t)
           \/ pc \notin {"import_open", "import_read", "failed"}
           \/ pc = "failed" /\ error # "import"
        /\ pc \in {"index", "vacuum", "analyze", "check", "manifest",
                   "cleanup", "done"} => IngestionOver
        /\ pc = "done" =>
              /\ exit_code = 0 /\ manifest /\ result = "ok"
              /\ Len(IndexAttempts) = Len(Indices)
              /\ LoggedKind("vacuum") /\ LoggedKind("analyze")
              /\ LoggedKind("integrity_check")

\* A build with a missing file that imported a later file and completed.
C5_Witness ==
    /\ Succeeded
    /\ \E t \in MissingFiles :
          \E j \in (TableIndex(t) + 1)..Len(ImportOrder) :
              rows[ImportOrder[j]] # <<>>

---------------------------------------------------------------------------
(* C6: for every table and every schema column absent from the header of   *)
(* its file, ingestion reports the column and goes on without a fatal      *)
(* error, inserting the rows with the column left null, whichever column   *)
(* it is. Stated for files that parse, whose rows have distinct keys and   *)
(* no empty cell, which nothing else keeps from being stored.              *)
NoEmptyCell(t) ==
    \A i \in 1..Len(feed[t].rows) :
        \A c \in DOMAIN feed[t].rows[i] : feed[t].rows[i][c] # NULL

DistinctPresentKeys(t) ==
    \A i, j \in 1..Len(feed[t].rows) :
        i < j =>
            \E c \in PrimaryKey[t] \cap feed[t].header :
                Affinity(t, c, feed[t].rows[i][c]) # Affinity(t, c, feed[t].rows[j][c])

C6_MissingColumnIsNotFatal ==
    \A t \in FeedTables :
        (/\ feed[t].st \in {"open", "done"}
         /\ feed[t].chunks >= 1
         /\ feed[t].header # Columns[t]
         /\ ~Logged(<<"read_error", t>>)
         /\ NoEmptyCell(t)
         /\ DistinctPresentKeys(t)) =>
            /\ Logged(<<"missing_columns", t>>)
            /\ ~(pc = "failed" /\ error = "import" /\ ImportOrder[k] = t)
            /\ Len(rows[t]) = Len(feed[t].rows)
            /\ \A i \in 1..Len(rows[t]) :
                  \A c \in Columns[t] \ feed[t].header : rows[t][i][c] = NULL

---------------------------------------------------------------------------
(* C7: a failing CREATE INDEX is logged and skipped: every one of the six  *)
(* indices is still attempted, VACUUM, ANALYZE and the integrity check     *)
(* still run, and a run that fails afterwards fails for another reason     *)
(* (the integrity check's answer or another statement raising).            *)
C7_IndexFailureIsSkipped ==
    LET attempts == IndexAttempts
        kinds == {log[i][1] : i \in 1..Len(log)}
    IN  "index_failed" \in kinds =>
            /\ \A i \in 1..Len(attempts) :
                  /\ attempts[i][2] = Indices[i][1]
                  /\ attempts[i][1] = "index_failed" => attempts[i][2] \notin indices
            /\ Len(attempts) = IF pc = "index" THEN k - 1 ELSE Len(Indices)
            /\ pc = "failed" =>
                  \/ error = "integrity" /\ {"vacuum", "analyze"} \subseteq kinds
                  \/ error = "fatal" /\ ("vacuum" \in kinds \/ "analyze" \notin kinds)
            /\ pc \in {"manifest", "cleanup", "done"} =>
                  /\ {"vacuum", "analyze", "integrity_check"} \subseteq kinds
                  /\ result = "ok"
            /\ pc = "done" => exit_code = 0 /\ manifest

\* An index other than the last failed, a later one was created, and the
\* build completed.
C7_Witness ==
    /\ Succeeded
    /\ \E i \in FailedIndices :
          \E j \in (i + 1)..Len(log) : log[j][1] = "index" /\ log[j][2] \in indices

---------------------------------------------------------------------------
---------------------------------------------------------------------------
(* C9 as claimed: after a successful build the store holds exactly the     *)
(* eight feed tables, and no other table.                                  *)
C9_ExactlyEightTables == Succeeded => tables = FeedTables

(* C9 as amended: after a successful build the store holds the eight feed  *)
(* tables and two more, room_master_table (with its one placeholder row)   *)
(* and sqlite_stat1, the statistics table ANALYZE writes; no other table.  *)
C9_EightTablesAndTwoMore ==
    Succeeded =>
        /\ tables = FeedTables \cup {"room_master_table", "sqlite_stat1"}
        /\ rows["room_master_table"] = <<RoomMasterRow>>

\* A completed build over a store file left by an earlier build.
C9_Witness ==
    /\ Succeeded
    /\ "room_master_table" \in tables
    /\ \E t \in FeedTables : rows[t] # <<>>

---------------------------------------------------------------------------
(* C10: after a successful build, the rows of each table whose file is     *)
(* present are the rows of the file, each once and in file order across    *)
(* the batches, with the defaulting rules applied (and the sequence        *)
(* columns in SQLite's integer form); the row total reported for the table *)
(* is the number of rows stored in it.                                     *)
\* The defaulting rules, as the claim's specification states them.
Defaulted(t, r) ==
    CASE t = "routes" ->
            LET short == IF r["route_short_name"] # NULL
                         THEN r["route_short_name"] ELSE r["route_id"]
            IN  [r EXCEPT !["route_short_name"] = short,
                          !["route_long_name"] =
                              IF r["route_long_name"] # NULL
                              THEN r["route_long_name"] ELSE short]
      [] t = "stops" ->
            [c \in DOMAIN r |->
                IF r[c] # NULL THEN r[c]
                ELSE IF c = "stop_name" THEN TextCell("Unknown Stop")
                ELSE IF c \in {"stop_lat", "stop_lon"} THEN TextCell("0.0")
                ELSE r[c]]
      [] OTHER -> r

C10_StoreHoldsTheSourceRows ==
    Succeeded =>
        \A t \in FeedTables :
            feed[t].st = "done" =>
                /\ Len(rows[t]) = Len(feed[t].rows)
                /\ \A i \in 1..Len(rows[t]) :
                      \A c \in Columns[t] :
                          rows[t][i][c] =
                              IF c \in feed[t].header
                              THEN Affinity(t, c, Defaulted(t, feed[t].rows[i])[c])
                              ELSE NULL
                /\ \E i \in 1..Len(reported) :
                      /\ reported[i] = <<t, Len(rows[t])>>
                      /\ \A j \in 1..Len(reported) : reported[j][1] = t => j = i

\* A completed build with a file that spanned two batches.
C10_Witness ==
    /\ Succeeded
    /\ \E t \in FeedTables :
          /\ feed[t].chunks = 2
          /\ Len(rows[t]) = ChunkSize + 1

====
